---- MODULE Spec2Model ----
(***************************************************************************)
(* Model of the trade-lifecycle simulation of smc_backtest.run_backtest.  *)
(* One behaviour is one call of run_backtest: Init picks the input frame  *)
(* (bars with their signal columns) and the keyword arguments, Start is   *)
(* the initialisation before the loop, BarStep is one iteration of the    *)
(* for-loop and Finish is the code after the loop.                        *)
(*                                                                         *)
(* The program computes in floating point.  The model computes with exact *)
(* rationals <<numerator, denominator>> in lowest terms, so an equation   *)
(* that holds here holds in the program up to rounding.                   *)
(***************************************************************************)
EXTENDS Integers, Sequences, FiniteSets, TLC

VARIABLES
    data,           \* the input frame: a sequence of rows (bar + signal columns)
    cfg,            \* keyword arguments of run_backtest
    pc,             \* "start", "loop", "done", "error"
    i,              \* loop index of the for-loop (0-based row number)
    risk,           \* risk_per_trade after the conversion to a decimal
    balance,
    position,       \* "None", "long", "short"
    entry_price,
    entry_date,
    stop_loss,
    take_profit,
    trade_size,
    trades,         \* the ledger: sequence of trade records
    equity_curve,   \* sequence of [date, equity]
    data_position,  \* column data['position']
    data_equity,    \* column data['equity']
    opened,         \* history: number of positions opened so far
    metrics,        \* performance_metrics, <<>> until computed
    strategy_arg,   \* risk_per_trade given to SMCStrategy(...), NoneVal for a
                    \* direct call of run_backtest
    active_trade,            \* locals of generate_trade_signals
    active_trade_direction,
    trades_today,
    current_date

vars == <<data, cfg, pc, i, risk, balance, position, entry_price, entry_date,
          stop_loss, take_profit, trade_size, trades, equity_curve,
          data_position, data_equity, opened, metrics, strategy_arg,
          active_trade, active_trade_direction, trades_today, current_date>>

\* the locals of generate_trade_signals
gen_vars == <<active_trade, active_trade_direction, trades_today, current_date>>

----------------------------------------------------------------------------
(* Bounds of the model *)

\* longest ledger handed to calculate_performance_metrics on its own
MaxTrades == 3

\* most rows after the warm-up rows in a frame given to generate_trade_signals
MaxSignalBars == 3

MaxBars == 3

----------------------------------------------------------------------------
(* Float arithmetic, as exact rationals *)

Abs(x) == IF x < 0 THEN -x ELSE x

RECURSIVE GCD(_, _)
GCD(a, b) == IF b = 0 THEN a ELSE GCD(b, a % b)

\* n/d in lowest terms with a positive denominator (d # 0)
Rat(n, d) ==
    LET g == GCD(Abs(n), Abs(d))
        s == IF d < 0 THEN -1 ELSE 1
    IN  <<s * (n \div g), s * (d \div g)>>

R(n) == <<n, 1>>

\* Python's None in a numeric local, and the float nan
NoneVal == <<0, -1>>
NaN == <<0, 0>>

\* float('inf'); it is only stored, never computed with
Inf == <<1, 0>>

IsNaN(a) == a[2] = 0

RAdd(a, b) ==
    IF IsNaN(a) \/ IsNaN(b)
    THEN NaN
    ELSE LET g == GCD(a[2], b[2])
         IN  Rat(a[1] * (b[2] \div g) + b[1] * (a[2] \div g), (a[2] \div g) * b[2])

RNeg(a) == <<-a[1], a[2]>>

RAbs(a) == IF a[1] < 0 THEN RNeg(a) ELSE a

RSub(a, b) == RAdd(a, RNeg(b))

RMul(a, b) ==
    IF IsNaN(a) \/ IsNaN(b)
    THEN NaN
    ELSE LET x == Rat(a[1], b[2])
             y == Rat(b[1], a[2])
         IN  <<x[1] * y[1], x[2] * y[2]>>

\* numpy float division: 0/0 is nan (a warning, not an exception)
RDiv(a, b) ==
    IF IsNaN(a) \/ IsNaN(b) \/ b[1] = 0
    THEN NaN
    ELSE RMul(a, Rat(b[2], b[1]))

\* comparisons; any comparison with nan is False
RLt(a, b) == ~IsNaN(a) /\ ~IsNaN(b) /\ a[1] * b[2] < b[1] * a[2]
RLe(a, b) == ~IsNaN(a) /\ ~IsNaN(b) /\ a[1] * b[2] <= b[1] * a[2]
RGe(a, b) == RLe(b, a)
RGt(a, b) == RLt(b, a)

----------------------------------------------------------------------------
(* Inputs: the rows of the frame and the keyword arguments *)

\* open/high/low/close of a bar: a quiet bar, a bar that only rises, a bar
\* that only falls and a bar that does both
Shapes ==
    { [open |-> R(8), high |-> R(8),  low |-> R(8), close |-> R(8)],
      [open |-> R(8), high |-> R(20), low |-> R(8), close |-> R(20)],
      [open |-> R(8), high |-> R(8),  low |-> R(2), close |-> R(2)],
      [open |-> R(8), high |-> R(20), low |-> R(2), close |-> R(10)] }

\* long_signal/short_signal/stop_loss/take_profit columns of a bar: no signal
\* (the levels are nan), a long, a short, and a long whose stop lies above
\* the entry price
Signals ==
    { [long_signal |-> FALSE, short_signal |-> FALSE, stop_loss |-> NaN,   take_profit |-> NaN],
      [long_signal |-> TRUE,  short_signal |-> FALSE, stop_loss |-> R(4),  take_profit |-> R(20)],
      [long_signal |-> FALSE, short_signal |-> TRUE,  stop_loss |-> R(12), take_profit |-> R(2)],
      [long_signal |-> TRUE,  short_signal |-> FALSE, stop_loss |-> R(16), take_profit |-> R(20)] }

Row(b, g) ==
    [open |-> b.open, high |-> b.high, low |-> b.low, close |-> b.close,
     long_signal |-> g.long_signal, short_signal |-> g.short_signal,
     stop_loss |-> g.stop_loss, take_profit |-> g.take_profit]

Rows == { Row(b, g) : b \in Shapes, g \in Signals }

\* keyword arguments: risk_per_trade is a percentage
Configs ==
    { [risk_per_trade |-> R(50), initial_balance |-> R(16),
       commission |-> Rat(1, 8), slippage |-> Rat(1, 8), spread |-> Rat(1, 2)] }

----------------------------------------------------------------------------
(* The locals of run_backtest as one record *)

Locals ==
    [balance |-> balance, position |-> position, entry_price |-> entry_price,
     entry_date |-> entry_date, stop_loss |-> stop_loss,
     take_profit |-> take_profit, trade_size |-> trade_size, trades |-> trades,
     equity_curve |-> equity_curve, data_position |-> data_position,
     data_equity |-> data_equity, opened |-> opened]

\* data.iloc[k] and data.index[k], k counted from 0
Candle(d, k) == d[k + 1]
Date(k) == k
NoneDate == -1

\* lines 44-56
InitLocals(d, c) ==
    [balance |-> c.initial_balance, position |-> "None", entry_price |-> NoneVal,
     entry_date |-> NoneDate, stop_loss |-> NoneVal, take_profit |-> NoneVal,
     trade_size |-> NoneVal, trades |-> <<>>,
     equity_curve |-> << [date |-> Date(0), equity |-> c.initial_balance] >>,
     data_position |-> [k \in 1..Len(d) |-> "None"],
     data_equity |-> [k \in 1..Len(d) |-> c.initial_balance],
     opened |-> 0]

\* variant of UpdateEquity: a sample only while a position is open
UpdateEquity_InPositionOnly(s, k) ==
    IF s.position # "None"
    THEN [s EXCEPT !.equity_curve = Append(@, [date |-> Date(k), equity |-> s.balance]),
                   !.data_equity[k + 1] = s.balance]
    ELSE s

\* lines 66-71
UpdateEquity(s, k) ==
    [s EXCEPT !.equity_curve = Append(@, [date |-> Date(k), equity |-> s.balance]),
              !.data_equity[k + 1] = s.balance]

\* variant of TpHit: a bar that only touches the target does not trigger
TpHit_Strict(s, cur) ==
    \/ s.position = "long" /\ RGt(cur.high, s.take_profit)
    \/ s.position = "short" /\ RLt(cur.low, s.take_profit)

\* lines 75-88 and 90-103
StopHit(s, cur) ==
    \/ s.position = "long" /\ RLe(cur.low, s.stop_loss)
    \/ s.position = "short" /\ RGe(cur.high, s.stop_loss)

TpHit(s, cur) ==
    \/ s.position = "long" /\ RGe(cur.high, s.take_profit)
    \/ s.position = "short" /\ RLe(cur.low, s.take_profit)

\* exit_type and exit_price after both tests have run: the take-profit test
\* runs second and overwrites what the stop-loss test assigned
ExitType(stop_hit, tp_hit) == IF tp_hit THEN "take_profit" ELSE "stop_loss"

ExitPrice(s, stop_hit, tp_hit) == IF tp_hit THEN s.take_profit ELSE s.stop_loss

\* variant of GrossProfit: the long formula used for both directions
GrossProfit_LongOnly(s, exit_price) ==
    RMul(RSub(exit_price, s.entry_price), s.trade_size)

\* lines 107-111 and 211-215
GrossProfit(s, exit_price) ==
    IF s.position = "long"
    THEN RMul(RSub(exit_price, s.entry_price), s.trade_size)
    ELSE RMul(RSub(s.entry_price, exit_price), s.trade_size)

\* variant of ExitCosts: commission only
ExitCosts_NoSlippage(s, c, exit_price) ==
    RMul(RMul(exit_price, s.trade_size), c.commission)

\* lines 113-116 and 217-220
ExitCosts(s, c, exit_price) ==
    RAdd(RMul(RMul(exit_price, s.trade_size), c.commission),
         RMul(RMul(exit_price, s.trade_size), c.slippage))

\* lines 107-135 and 211-239: settle the open position and record the trade
RecordTrade(s, c, exit_price, exit_date, exit_type) ==
    LET profit == RSub(GrossProfit(s, exit_price), ExitCosts(s, c, exit_price))
        bal == RAdd(s.balance, profit)
        trade == [entry_date |-> s.entry_date, entry_price |-> s.entry_price,
                  exit_date |-> exit_date, exit_price |-> exit_price,
                  position |-> s.position, trade_size |-> s.trade_size,
                  stop_loss |-> s.stop_loss, take_profit |-> s.take_profit,
                  profit |-> profit,
                  profit_pct |-> RMul(RDiv(profit, RMul(s.entry_price, s.trade_size)), R(100)),
                  exit_type |-> exit_type, balance_after |-> bal]
    IN  [s EXCEPT !.balance = bal, !.trades = Append(@, trade)]

\* variant of ResetPosition: the slot is not cleared after the exit
ResetPosition_Keep(s) == s

\* lines 137-143
ResetPosition(s) ==
    [s EXCEPT !.position = "None", !.entry_price = NoneVal, !.entry_date = NoneDate,
              !.stop_loss = NoneVal, !.take_profit = NoneVal, !.trade_size = NoneVal]

\* lines 73-143
CheckExit(s, c, cur, k) ==
    IF s.position # "None"
    THEN LET stop_hit == StopHit(s, cur)
             tp_hit == TpHit(s, cur)
         IN  IF stop_hit \/ tp_hit
             THEN ResetPosition(RecordTrade(s, c, ExitPrice(s, stop_hit, tp_hit),
                                            Date(k), ExitType(stop_hit, tp_hit)))
             ELSE s
    ELSE s

\* variant of MayEnter: the guard of line 146 dropped
MayEnter_NoGuard(s) == TRUE

\* line 146
MayEnter(s) == s.position = "None"

\* lines 148/174: the direction taken from a row's signal columns
Direction(row) ==
    IF row.long_signal THEN "long"
    ELSE IF row.short_signal THEN "short"
    ELSE "None"

\* lines 150/156 and 176/182
EntryPrice(dir, cur, c) ==
    IF dir = "long"
    THEN RMul(cur.open, RAdd(R(1), c.spread))
    ELSE RMul(cur.open, RSub(R(1), c.spread))

\* lines 162 and 188
PriceRisk(dir, price, stop) ==
    IF dir = "long" THEN RSub(price, stop) ELSE RSub(stop, price)

\* variant of TradeSize: the risk amount is not divided by the distance
TradeSize_NoDistance(bal, rk, price_risk) ==
    IF RGt(price_risk, R(0)) THEN RMul(bal, rk) ELSE R(0)

\* variant of TradeSize: sized on the absolute distance
TradeSize_Absolute(bal, rk, price_risk) ==
    IF price_risk # R(0) THEN RDiv(RMul(bal, rk), RAbs(price_risk)) ELSE R(0)

\* lines 159-163 and 185-189
TradeSize(bal, rk, price_risk) ==
    IF RGt(price_risk, R(0)) THEN RDiv(RMul(bal, rk), price_risk) ELSE R(0)

\* variant of EntryCosts: slippage left out
EntryCosts_NoSlippage(price, size, c) == RMul(RMul(price, size), c.commission)

\* lines 165-168 and 191-194
EntryCosts(price, size, c) ==
    RAdd(RMul(RMul(price, size), c.commission), RMul(RMul(price, size), c.slippage))

\* variant of PrevCandle: the signal is read from the current row
PrevCandle_Current(d, k) == Candle(d, k)

\* the row whose signal columns drive the entry at row k (line 64)
PrevCandle(d, k) == Candle(d, k - 1)

\* lines 145-197
CheckEntry(s, c, rk, cur, prev, k) ==
    LET dir == Direction(prev) IN
    IF MayEnter(s) /\ dir # "None"
    THEN LET price == EntryPrice(dir, cur, c)
             size == TradeSize(s.balance, rk, PriceRisk(dir, price, prev.stop_loss))
         IN  [s EXCEPT !.position = dir,
                       !.entry_price = price,
                       !.entry_date = Date(k),
                       !.stop_loss = prev.stop_loss,
                       !.take_profit = prev.take_profit,
                       !.trade_size = size,
                       !.balance = RSub(@, EntryCosts(price, size, c)),
                       !.data_position[k + 1] = dir,
                       !.opened = @ + 1]
    ELSE s

\* lines 199-201
RecordPosition(s, k) ==
    IF s.position # "None"
    THEN [s EXCEPT !.data_position[k + 1] = s.position]
    ELSE s

\* variant of LoopBody: the entry test runs before the exit test
LoopBody_EntryFirst(s, d, c, rk, k) ==
    LET cur == Candle(d, k)
        prev == PrevCandle(d, k)
        s1 == UpdateEquity(s, k)
        s2 == CheckEntry(s1, c, rk, cur, prev, k)
        s3 == IF s2.position # "None" /\ s2.entry_date # Date(k)
              THEN CheckExit(s2, c, cur, k)
              ELSE s2
    IN  RecordPosition(s3, k)

\* variant of LoopBody: the equity sample is taken after the exit and entry
LoopBody_SampleLast(s, d, c, rk, k) ==
    LET cur == Candle(d, k)
        prev == PrevCandle(d, k)
        s2 == CheckExit(s, c, cur, k)
        s3 == CheckEntry(s2, c, rk, cur, prev, k)
    IN  UpdateEquity(RecordPosition(s3, k), k)

\* variant of LoopBody: the exit test runs after the entry, on the same row
LoopBody_ExitAfterEntry(s, d, c, rk, k) ==
    LET cur == Candle(d, k)
        prev == PrevCandle(d, k)
        s1 == UpdateEquity(s, k)
        s2 == CheckEntry(s1, c, rk, cur, prev, k)
        s3 == CheckExit(s2, c, cur, k)
    IN  RecordPosition(s3, k)

\* lines 62-201: one iteration of the loop, at row k
LoopBody(s, d, c, rk, k) ==
    LET cur == Candle(d, k)
        prev == PrevCandle(d, k)
        s1 == UpdateEquity(s, k)
        s2 == CheckExit(s1, c, cur, k)
        s3 == CheckEntry(s2, c, rk, cur, prev, k)
    IN  RecordPosition(s3, k)

\* variant of CloseAtEnd: the forced exit priced at the last open
CloseAtEnd_AtOpen(s, d, c) ==
    IF s.position # "None"
    THEN LET last == Candle(d, Len(d) - 1)
             s1 == RecordTrade(s, c, last.open, Date(Len(d) - 1), "end_of_data")
         IN  [s1 EXCEPT !.equity_curve[Len(s1.equity_curve)].equity = s1.balance,
                        !.data_equity[Len(d)] = s1.balance]
    ELSE s

\* variant of CloseAtEnd: lines 241-243 left out
CloseAtEnd_NoEquityFix(s, d, c) ==
    IF s.position # "None"
    THEN RecordTrade(s, c, Candle(d, Len(d) - 1).close, Date(Len(d) - 1), "end_of_data")
    ELSE s

\* lines 203-243: close a position left open after the last row
CloseAtEnd(s, d, c) ==
    IF s.position # "None"
    THEN LET last == Candle(d, Len(d) - 1)
             s1 == RecordTrade(s, c, last.close, Date(Len(d) - 1), "end_of_data")
         IN  [s1 EXCEPT !.equity_curve[Len(s1.equity_curve)].equity = s1.balance,
                        !.data_equity[Len(d)] = s1.balance]
    ELSE s

----------------------------------------------------------------------------
(* calculate_performance_metrics *)

\* sum(t['profit'] for t in ts)
RECURSIVE SumProfit(_)
SumProfit(ts) ==
    IF ts = <<>> THEN R(0) ELSE RAdd(ts[1].profit, SumProfit(Tail(ts)))

\* variant of IsLoss: a trade of profit 0 is in neither subset
IsLoss_Strict(t) == RLt(t.profit, R(0))

\* lines 288-289
IsWin(t) == RGt(t.profit, R(0))
IsLoss(t) == RLe(t.profit, R(0))

WinningTrades(ts) == SelectSeq(ts, IsWin)
LosingTrades(ts) == SelectSeq(ts, IsLoss)

\* lines 293-294
GrossProfitSum(ts) == SumProfit(WinningTrades(ts))
GrossLossSum(ts) == RAbs(SumProfit(LosingTrades(ts)))

\* line 296
ProfitFactor(gross_profit, gross_loss) ==
    IF RGt(gross_loss, R(0)) THEN RDiv(gross_profit, gross_loss) ELSE Inf

\* lines 298-299
Average(total, count) == IF count > 0 THEN RDiv(total, R(count)) ELSE R(0)

\* line 302: [initial_balance] + [t['balance_after'] for t in trades]
EquityValues(ts, ib) == <<ib>> \o [n \in 1..Len(ts) |-> ts[n].balance_after]

\* lines 303-305
WalkStart(ib) ==
    [max_equity |-> ib, max_drawdown |-> R(0), max_drawdown_pct |-> R(0),
     drawdown |-> R(0), drawdown_pct |-> R(0)]

\* variant of WalkStep: the peak is never raised
WalkStep_KeepPeak(w, equity) ==
    LET peak == w.max_equity
        dd == RSub(peak, equity)
        pct == IF RGt(peak, R(0)) THEN RDiv(dd, peak) ELSE R(0)
    IN  IF RGt(dd, w.max_drawdown)
        THEN [max_equity |-> peak, max_drawdown |-> dd, max_drawdown_pct |-> pct,
              drawdown |-> dd, drawdown_pct |-> pct]
        ELSE [max_equity |-> peak, max_drawdown |-> w.max_drawdown,
              max_drawdown_pct |-> w.max_drawdown_pct,
              drawdown |-> dd, drawdown_pct |-> pct]

\* lines 308-316: one iteration of the drawdown loop
WalkStep(w, equity) ==
    LET peak == IF RGt(equity, w.max_equity) THEN equity ELSE w.max_equity
        dd == RSub(peak, equity)
        pct == IF RGt(peak, R(0)) THEN RDiv(dd, peak) ELSE R(0)
    IN  IF RGt(dd, w.max_drawdown)
        THEN [max_equity |-> peak, max_drawdown |-> dd, max_drawdown_pct |-> pct,
              drawdown |-> dd, drawdown_pct |-> pct]
        ELSE [max_equity |-> peak, max_drawdown |-> w.max_drawdown,
              max_drawdown_pct |-> w.max_drawdown_pct,
              drawdown |-> dd, drawdown_pct |-> pct]

\* lines 307-316: the loop variables after the first n values
RECURSIVE Walk(_, _, _)
Walk(values, ib, n) ==
    IF n = 0 THEN WalkStart(ib) ELSE WalkStep(Walk(values, ib, n - 1), values[n])

\* variant of NoTradeMetrics: profit factor by the general rule of line 296
NoTradeMetrics_GeneralProfitFactor(ib) ==
    [total_trades |-> 0, win_rate |-> R(0), profit_factor |-> Inf,
     avg_win |-> R(0), avg_loss |-> R(0), max_drawdown |-> R(0),
     max_drawdown_pct |-> R(0), final_balance |-> ib, return |-> R(0),
     sharpe_ratio |-> R(0)]

\* lines 271-284
NoTradeMetrics(ib) ==
    [total_trades |-> 0, win_rate |-> R(0), profit_factor |-> R(0),
     avg_win |-> R(0), avg_loss |-> R(0), max_drawdown |-> R(0),
     max_drawdown_pct |-> R(0), final_balance |-> ib, return |-> R(0),
     sharpe_ratio |-> R(0)]

\* lines 286-337
TradeMetrics(ts, ib) ==
    LET total_trades == Len(ts)
        winning == WinningTrades(ts)
        losing == LosingTrades(ts)
        gross_profit == GrossProfitSum(ts)
        gross_loss == GrossLossSum(ts)
        values == EquityValues(ts, ib)
        w == Walk(values, ib, Len(values))
        final_balance == ts[Len(ts)].balance_after
    IN  [total_trades |-> total_trades,
         winning_trades |-> Len(winning),
         losing_trades |-> Len(losing),
         win_rate |-> IF total_trades > 0 THEN Rat(Len(winning), total_trades) ELSE R(0),
         profit_factor |-> ProfitFactor(gross_profit, gross_loss),
         avg_win |-> Average(gross_profit, Len(winning)),
         avg_loss |-> Average(gross_loss, Len(losing)),
         max_drawdown |-> w.max_drawdown,
         max_drawdown_pct |-> w.max_drawdown_pct,
         final_balance |-> final_balance,
         return |-> RDiv(RSub(final_balance, ib), ib)]

\* lines 253-337
calculate_performance_metrics(ts, ec, ib) ==
    IF ts = <<>> THEN NoTradeMetrics(ib) ELSE TradeMetrics(ts, ib)

----------------------------------------------------------------------------
(* The state machine *)

SetLocals(s) ==
    /\ balance' = s.balance
    /\ position' = s.position
    /\ entry_price' = s.entry_price
    /\ entry_date' = s.entry_date
    /\ stop_loss' = s.stop_loss
    /\ take_profit' = s.take_profit
    /\ trade_size' = s.trade_size
    /\ trades' = s.trades
    /\ equity_curve' = s.equity_curve
    /\ data_position' = s.data_position
    /\ data_equity' = s.data_equity
    /\ opened' = s.opened

\* the state at the call of run_backtest on a frame of rows drawn from rowset
\* generate_trade_signals is not running
GenIdle ==
    /\ active_trade = FALSE
    /\ active_trade_direction = "None"
    /\ trades_today = 0
    /\ current_date = NoneDate

InitCall(rowset) ==
    /\ GenIdle
    /\ \E n \in 0..MaxBars : data \in [1..n -> rowset]
    /\ pc = "start"
    /\ i = 0
    /\ risk = NoneVal
    /\ balance = NoneVal
    /\ position = "None"
    /\ entry_price = NoneVal
    /\ entry_date = NoneDate
    /\ stop_loss = NoneVal
    /\ take_profit = NoneVal
    /\ trade_size = NoneVal
    /\ trades = <<>>
    /\ equity_curve = <<>>
    /\ data_position = <<>>
    /\ data_equity = <<>>
    /\ opened = 0
    /\ metrics = <<>>

\* a direct call run_backtest(data, ...)
Init ==
    /\ InitCall(Rows)
    /\ cfg \in Configs
    /\ strategy_arg = NoneVal

\* lines 41-59; data.index[0] raises IndexError on an empty frame (line 52)
Start ==
    /\ pc = "start"
    /\ IF Len(data) = 0
       THEN /\ pc' = "error"
            /\ UNCHANGED <<i, risk, balance, position, entry_price, entry_date,
                           stop_loss, take_profit, trade_size, trades,
                           equity_curve, data_position, data_equity, opened>>
       ELSE /\ pc' = "loop"
            /\ i' = 1
            /\ risk' = RDiv(cfg.risk_per_trade, R(100))
            /\ SetLocals(InitLocals(data, cfg))
    /\ UNCHANGED <<data, cfg, metrics, strategy_arg, gen_vars>>

\* lines 62-201
BarStep ==
    /\ pc = "loop"
    /\ i < Len(data)
    /\ SetLocals(LoopBody(Locals, data, cfg, risk, i))
    /\ i' = i + 1
    /\ UNCHANGED <<data, cfg, pc, risk, metrics, strategy_arg, gen_vars>>

\* lines 203-251
Finish ==
    /\ pc = "loop"
    /\ i >= Len(data)
    /\ LET s == CloseAtEnd(Locals, data, cfg)
       IN  /\ SetLocals(s)
           /\ metrics' = calculate_performance_metrics(s.trades, s.equity_curve,
                                                      cfg.initial_balance)
    /\ pc' = "done"
    /\ UNCHANGED <<data, cfg, i, risk, strategy_arg, gen_vars>>

\* a direct call on a frame that may hold rows with both signal columns set
BothSignal ==
    [long_signal |-> TRUE, short_signal |-> TRUE, stop_loss |-> R(4), take_profit |-> R(20)]

RowsBoth == Rows \cup { Row(b, BothSignal) : b \in Shapes }

InitBoth ==
    /\ InitCall(RowsBoth)
    /\ cfg \in Configs
    /\ strategy_arg = NoneVal

\* a direct call on a frame with stops at, above and below the entry price:
\* a quiet bar, a bar that rises and falls, and a quiet bar after a gap up;
\* no signal, a long with its stop below the entry, a long with its stop at
\* the entry taken from an open of 8, a long with its stop above it, and a
\* short with its stop below the entry
ShapesDegenerate ==
    { [open |-> R(8),  high |-> R(8),  low |-> R(8),  close |-> R(8)],
      [open |-> R(8),  high |-> R(20), low |-> R(2),  close |-> R(10)],
      [open |-> R(16), high |-> R(16), low |-> R(16), close |-> R(16)] }

SignalsDegenerate ==
    { [long_signal |-> FALSE, short_signal |-> FALSE, stop_loss |-> NaN,   take_profit |-> NaN],
      [long_signal |-> TRUE,  short_signal |-> FALSE, stop_loss |-> R(4),  take_profit |-> R(20)],
      [long_signal |-> TRUE,  short_signal |-> FALSE, stop_loss |-> R(12), take_profit |-> R(20)],
      [long_signal |-> TRUE,  short_signal |-> FALSE, stop_loss |-> R(16), take_profit |-> R(20)],
      [long_signal |-> FALSE, short_signal |-> TRUE,  stop_loss |-> R(2),  take_profit |-> R(1)] }

RowsDegenerate == { Row(b, g) : b \in ShapesDegenerate, g \in SignalsDegenerate }

InitDegenerate ==
    /\ InitCall(RowsDegenerate)
    /\ cfg \in Configs
    /\ strategy_arg = NoneVal

\* a direct call calculate_performance_metrics(trades, equity_curve,
\* initial_balance) on a ledger as run_backtest builds one: each trade first
\* pays its entry cost (lines 166-168), then adds its profit (line 119)
ProfitSteps == {R(0 - 8), R(0 - 4), R(0), R(4), R(32)}
EntryCostSteps == {R(0), R(1)}
LedgerSteps == [profit : ProfitSteps, entry_cost : EntryCostSteps]

RECURSIVE BalanceAfter(_, _, _)
BalanceAfter(steps, ib, n) ==
    IF n = 0 THEN ib
    ELSE RAdd(RSub(BalanceAfter(steps, ib, n - 1), steps[n].entry_cost), steps[n].profit)

Ledger(steps, ib) ==
    [n \in 1..Len(steps) |->
        [profit |-> steps[n].profit, balance_after |-> BalanceAfter(steps, ib, n)]]

InitMetrics ==
    /\ GenIdle
    /\ cfg \in Configs
    /\ \E n \in 0..MaxTrades : \E steps \in [1..n -> LedgerSteps] :
           /\ \A k \in 1..n : RGt(BalanceAfter(steps, cfg.initial_balance, k), R(0))
           /\ trades = Ledger(steps, cfg.initial_balance)
    /\ pc = "call"
    /\ metrics = <<>>
    /\ data = <<>>
    /\ i = 0
    /\ risk = NoneVal
    /\ balance = NoneVal
    /\ position = "None"
    /\ entry_price = NoneVal
    /\ entry_date = NoneDate
    /\ stop_loss = NoneVal
    /\ take_profit = NoneVal
    /\ trade_size = NoneVal
    /\ equity_curve = <<>>
    /\ data_position = <<>>
    /\ data_equity = <<>>
    /\ opened = 0
    /\ strategy_arg = NoneVal

Summarize ==
    /\ pc = "call"
    /\ metrics' = calculate_performance_metrics(trades, equity_curve, cfg.initial_balance)
    /\ pc' = "returned"
    /\ UNCHANGED <<data, cfg, i, risk, balance, position, entry_price, entry_date,
                   stop_loss, take_profit, trade_size, trades, equity_curve,
                   data_position, data_equity, opened, strategy_arg, gen_vars>>

NextMetrics == Summarize

\* SMCStrategy.__init__ (smc_strategy.py line 25): the percentage is stored
\* as a fraction
SMCStrategy(risk_per_trade) ==
    [risk_per_trade |-> RDiv(risk_per_trade, R(100))]

\* SMCStrategy.backtest (smc_strategy.py lines 67-75): the arguments it
\* hands to run_backtest
backtest(self, kw) ==
    [risk_per_trade |-> self.risk_per_trade, initial_balance |-> kw.initial_balance,
     commission |-> kw.commission, slippage |-> kw.slippage, spread |-> kw.spread]

\* the percentage given to the constructor
StrategyArgs == {R(50)}

\* a call SMCStrategy(risk_per_trade = r).backtest(data, ...) on a frame that
\* already carries its signal columns
InitStrategy ==
    /\ InitCall(Rows)
    /\ strategy_arg \in StrategyArgs
    /\ \E kw \in Configs : cfg = backtest(SMCStrategy(strategy_arg), kw)

----------------------------------------------------------------------------
(* generate_trade_signals (smc_signals.py) *)

\* line 58: the loop starts at row 50
WarmUp == 50

\* rows of the input frame: a bar, its indicators and the calendar day of its
\* timestamp
GenBar(o, h, l, c, e20, e50) ==
    [open |-> R(o), high |-> R(h), low |-> R(l), close |-> R(c),
     atr |-> Rat(5, 2), ema20 |-> R(e20), ema50 |-> R(e50), rsi |-> R(50)]

GenShapes ==
    { GenBar(8, 8, 8, 8, 8, 8),     \* quiet
      GenBar(7, 9, 7, 9, 9, 8),     \* rising bar in an up-trend
      GenBar(3, 9, 3, 9, 9, 8),     \* rising bar from a low of 3
      GenBar(9, 9, 7, 7, 7, 8),     \* falling bar in a down-trend
      GenBar(8, 8, 3, 8, 8, 8),     \* low of 3, close at the open
      GenBar(8, 13, 8, 8, 8, 8) }   \* high of 13, close at the open

Days == {1, 2}

GenRow(b, d) ==
    [open |-> b.open, high |-> b.high, low |-> b.low, close |-> b.close,
     atr |-> b.atr, ema20 |-> b.ema20, ema50 |-> b.ema50, rsi |-> b.rsi,
     day |-> d]

GenRows == { GenRow(b, d) : b \in GenShapes, d \in Days }

\* the rows 0..49: rising bars of day 1
WarmUpRow == GenRow(GenBar(7, 9, 7, 9, 9, 8), 1)

\* the patterns argument: fair-value gaps at rows 30 and 48, each followed by
\* a sweep of either side
PatternsArg ==
    [bullish_fvgs |-> << [index |-> 30, gap_bottom |-> R(8)],
                         [index |-> 48, gap_bottom |-> R(8)] >>,
     bearish_fvgs |-> << [index |-> 30, gap_bottom |-> R(8)],
                         [index |-> 48, gap_bottom |-> R(8)] >>,
     high_sweeps |-> << [index |-> 31], [index |-> 49] >>,
     low_sweeps |-> << [index |-> 31], [index |-> 49] >>]

\* keyword arguments of generate_trade_signals
GenConfigs ==
    { [patterns |-> PatternsArg, risk_per_trade |-> Rat(1, 2),
       take_profit_ratio |-> R(2), atr_multiplier |-> Rat(6, 5),
       max_trades_per_day |-> m] : m \in {1, 2} }

\* lines 40-43: the four signal columns added to the copy of the frame
AddSignalColumns(row) ==
    [open |-> row.open, high |-> row.high, low |-> row.low, close |-> row.close,
     atr |-> row.atr, ema20 |-> row.ema20, ema50 |-> row.ema50, rsi |-> row.rsi,
     day |-> row.day,
     long_signal |-> FALSE, short_signal |-> FALSE,
     stop_loss |-> NaN, take_profit |-> NaN]

\* lines 62-64: a new calendar day resets the counter
ResetDay(g, cur) ==
    IF g.current_date = NoneDate \/ cur.day # g.current_date
    THEN [g EXCEPT !.current_date = cur.day, !.trades_today = 0]
    ELSE g

\* variant of CapReached: the cap is never reached
CapReached_Never(g, c) == FALSE

\* line 67
CapReached(g, c) == g.trades_today >= c.max_trades_per_day

\* lines 71-92: the active trade is tested on the current bar against the
\* stop_loss / take_profit columns of row k-1
Release(g, d, k) ==
    LET cur == Candle(d, k)
        prev == Candle(d, k - 1)
        hit == \/ /\ g.active_trade_direction = "long"
                  /\ \/ RLe(cur.low, prev.stop_loss)
                     \/ RGe(cur.high, prev.take_profit)
               \/ /\ g.active_trade_direction = "short"
                  /\ \/ RGe(cur.high, prev.stop_loss)
                     \/ RLe(cur.low, prev.take_profit)
    IN  IF g.active_trade /\ hit
        THEN [g EXCEPT !.active_trade = FALSE, !.active_trade_direction = "None"]
        ELSE g

\* lines 104-135
LongSignal(cur, pats, k) ==
    /\ \E f \in 1..Len(pats.bullish_fvgs) :
           LET fvg == pats.bullish_fvgs[f]
           IN  /\ ~(fvg.index < k - 20)
               /\ RLe(cur.low, RMul(fvg.gap_bottom, Rat(1001, 1000)))
               /\ RGt(cur.close, cur.open)
               /\ \E s \in 1..Len(pats.low_sweeps) :
                      /\ pats.low_sweeps[s].index > fvg.index
                      /\ pats.low_sweeps[s].index <= k - 1
    /\ RGt(cur.ema20, cur.ema50)
    /\ RGt(cur.rsi, R(40))

\* lines 140-171
ShortSignal(cur, pats, k) ==
    /\ \E f \in 1..Len(pats.bearish_fvgs) :
           LET fvg == pats.bearish_fvgs[f]
           IN  /\ ~(fvg.index < k - 20)
               /\ RGe(cur.high, RMul(fvg.gap_bottom, Rat(999, 1000)))
               /\ RLt(cur.close, cur.open)
               /\ \E s \in 1..Len(pats.high_sweeps) :
                      /\ pats.high_sweeps[s].index > fvg.index
                      /\ pats.high_sweeps[s].index <= k - 1
    /\ RLt(cur.ema20, cur.ema50)
    /\ RLt(cur.rsi, R(60))

\* lines 174-204: mark row k and start tracking the trade
Emit(g, d, c, k) ==
    LET cur == Candle(d, k)
        dist == RMul(cur.atr, c.atr_multiplier)
    IN  IF LongSignal(cur, c.patterns, k)
        THEN LET stop == RSub(cur.low, dist)
                 risk_per_unit == RSub(cur.close, stop)
                 target == RAdd(cur.close, RMul(risk_per_unit, c.take_profit_ratio))
             IN  [data |-> [d EXCEPT ![k + 1].long_signal = TRUE,
                                     ![k + 1].stop_loss = stop,
                                     ![k + 1].take_profit = target],
                  locals |-> [g EXCEPT !.active_trade = TRUE,
                                       !.active_trade_direction = "long",
                                       !.trades_today = @ + 1]]
        ELSE IF ShortSignal(cur, c.patterns, k)
        THEN LET stop == RAdd(cur.high, dist)
                 risk_per_unit == RSub(stop, cur.close)
                 target == RSub(cur.close, RMul(risk_per_unit, c.take_profit_ratio))
             IN  [data |-> [d EXCEPT ![k + 1].short_signal = TRUE,
                                     ![k + 1].stop_loss = stop,
                                     ![k + 1].take_profit = target],
                  locals |-> [g EXCEPT !.active_trade = TRUE,
                                       !.active_trade_direction = "short",
                                       !.trades_today = @ + 1]]
        ELSE [data |-> d, locals |-> g]

\* lines 58-204: one iteration of the loop, at row k
GenBody(g, d, c, k) ==
    LET g1 == ResetDay(g, Candle(d, k))
    IN  IF CapReached(g1, c)
        THEN [data |-> d, locals |-> g1]
        ELSE LET g2 == Release(g1, d, k)
             IN  IF g2.active_trade
                 THEN [data |-> d, locals |-> g2]
                 ELSE Emit(g2, d, c, k)

GenLocals ==
    [active_trade |-> active_trade, active_trade_direction |-> active_trade_direction,
     trades_today |-> trades_today, current_date |-> current_date]

SetGenLocals(g) ==
    /\ active_trade' = g.active_trade
    /\ active_trade_direction' = g.active_trade_direction
    /\ trades_today' = g.trades_today
    /\ current_date' = g.current_date

backtest_vars ==
    <<risk, balance, position, entry_price, entry_date, stop_loss, take_profit,
      trade_size, trades, equity_curve, data_position, data_equity, opened,
      metrics, strategy_arg>>

\* a call generate_trade_signals(data, patterns, ...) on a frame of 50 warm-up
\* rows and up to MaxSignalBars further rows in chronological order
InitSignals ==
    /\ \E n \in 0..MaxSignalBars : \E tail \in [1..n -> GenRows] :
           /\ \A k \in 1..n : tail[k].day >= (IF k = 1 THEN WarmUpRow.day ELSE tail[k - 1].day)
           /\ data = [k \in 1..(WarmUp + n) |->
                         IF k <= WarmUp THEN WarmUpRow ELSE tail[k - WarmUp]]
    /\ cfg \in GenConfigs
    /\ pc = "gen_start"
    /\ i = 0
    /\ GenIdle
    /\ risk = NoneVal
    /\ balance = NoneVal
    /\ position = "None"
    /\ entry_price = NoneVal
    /\ entry_date = NoneDate
    /\ stop_loss = NoneVal
    /\ take_profit = NoneVal
    /\ trade_size = NoneVal
    /\ trades = <<>>
    /\ equity_curve = <<>>
    /\ data_position = <<>>
    /\ data_equity = <<>>
    /\ opened = 0
    /\ metrics = <<>>
    /\ strategy_arg = NoneVal

\* lines 37-55
GenStart ==
    /\ pc = "gen_start"
    /\ data' = [k \in 1..Len(data) |-> AddSignalColumns(data[k])]
    /\ SetGenLocals([active_trade |-> FALSE, active_trade_direction |-> "None",
                     trades_today |-> 0, current_date |-> NoneDate])
    /\ i' = WarmUp
    /\ pc' = "gen_loop"
    /\ UNCHANGED cfg
    /\ UNCHANGED backtest_vars

\* lines 58-204
GenStep ==
    /\ pc = "gen_loop"
    /\ i < Len(data)
    /\ LET r == GenBody(GenLocals, data, cfg, i)
       IN  /\ data' = r.data
           /\ SetGenLocals(r.locals)
    /\ i' = i + 1
    /\ UNCHANGED <<cfg, pc>>
    /\ UNCHANGED backtest_vars

\* lines 206-207
GenReturn ==
    /\ pc = "gen_loop"
    /\ i >= Len(data)
    /\ pc' = "gen_done"
    /\ UNCHANGED <<data, cfg, i>>
    /\ UNCHANGED gen_vars
    /\ UNCHANGED backtest_vars

NextSignals == GenStart \/ GenStep \/ GenReturn

Next == Start \/ BarStep \/ Finish

Spec == Init /\ [][Next]_vars

SpecDegenerate == InitDegenerate /\ [][Next]_vars

SpecMetrics == InitMetrics /\ [][NextMetrics]_vars

SpecStrategy == InitStrategy /\ [][Next]_vars

SpecSignals == InitSignals /\ [][NextSignals]_vars

SpecBoth == InitBoth /\ [][Next]_vars

----------------------------------------------------------------------------
(* Helpers of the properties *)

Running == pc = "loop"
Finished == pc = "done"

\* positions opened and not yet converted into a trade
OpenPositions == opened - Len(trades)

\* the row at which the last BarStep ran
LastStep == i - 1

----------------------------------------------------------------------------
\* C1: single-position invariant.  After every bar step the number of open
\* positions (opened and not yet turned into a trade) is 0 or 1, it is 1
\* exactly when the position slot is filled, so a signal that arrives while
\* a position is open never opens a second one.
C1_SinglePosition ==
    Running =>
        /\ OpenPositions \in {0, 1}
        /\ (OpenPositions = 1) <=> (position # "None")

\* a step ran with a directional signal pending while a position opened at
\* an earlier row stayed open
C1_Witness ==
    /\ Running
    /\ LastStep >= 2
    /\ position # "None"
    /\ entry_date < LastStep
    /\ Direction(PrevCandle(data, LastStep)) # "None"
    /\ OpenPositions = 1

----------------------------------------------------------------------------
\* C2: tie-break.  Every trade closed by the stop/target test at a bar on
\* which both its stop-loss and its take-profit condition trigger has
\* exit_type 'stop_loss' and exits at the stop-loss level.
C2_StopLossFirst ==
    \A n \in 1..Len(trades) :
        LET t == trades[n]
            cur == Candle(data, t.exit_date)
        IN  (t.exit_type # "end_of_data" /\ StopHit(t, cur) /\ TpHit(t, cur))
                => (t.exit_type = "stop_loss" /\ t.exit_price = t.stop_loss)

----------------------------------------------------------------------------
\* C3: no look-ahead.  The position state, balance, ledger and equity
\* samples after step k are those of the run on the frame cut after row k
\* with row k's signal columns blanked.  The input ranges over all frames,
\* so two runs whose bars agree up to row k and whose signals agree up to
\* row k-1 both equal the run on that common cut frame, and so each other.
\* An entry at row k takes its direction from row k-1 and its base price
\* from row k's open.
Observed(s) ==
    [position |-> s.position, entry_price |-> s.entry_price,
     entry_date |-> s.entry_date, stop_loss |-> s.stop_loss,
     take_profit |-> s.take_profit, trade_size |-> s.trade_size,
     balance |-> s.balance, trades |-> s.trades, equity_curve |-> s.equity_curve]

RECURSIVE RunTo(_, _, _)
RunTo(d, c, k) ==
    IF k = 0
    THEN InitLocals(d, c)
    ELSE LoopBody(RunTo(d, c, k - 1), d, c, RDiv(c.risk_per_trade, R(100)), k)

NoSignal ==
    [long_signal |-> FALSE, short_signal |-> FALSE, stop_loss |-> NaN, take_profit |-> NaN]

\* rows 0..k of d, row k keeping its bar and losing its signal columns
CutFrame(d, k) ==
    [n \in 1..(k + 1) |-> IF n = k + 1 THEN Row(d[n], NoSignal) ELSE d[n]]

C3_NoLookAhead ==
    (Running /\ LastStep >= 1) =>
        /\ Observed(RunTo(CutFrame(data, LastStep), cfg, LastStep)) = Observed(Locals)
        /\ (position # "None" /\ entry_date = LastStep) =>
               /\ position = Direction(Candle(data, LastStep - 1))
               /\ entry_price = RMul(Candle(data, LastStep).open,
                                     IF position = "long"
                                     THEN RAdd(R(1), cfg.spread)
                                     ELSE RSub(R(1), cfg.spread))

\* an entry was taken at a row whose own signal points the other way, and
\* rows follow it
C3_Witness ==
    /\ Running
    /\ LastStep >= 1
    /\ LastStep + 1 < Len(data)
    /\ position = "long"
    /\ entry_date = LastStep
    /\ Direction(Candle(data, LastStep)) = "short"

----------------------------------------------------------------------------
\* the balance at the moment of the entry taken in the current step: the
\* balance after the exit, if any, of the same step
BalanceAtEntryStep ==
    IF Len(trades') > Len(trades)
    THEN trades'[Len(trades')].balance_after
    ELSE balance

\* the signed distance to the stop of the position held after the step
StopDistanceAfter ==
    IF position' = "long"
    THEN RSub(entry_price', stop_loss')
    ELSE RSub(stop_loss', entry_price')

AbsDistanceAfter ==
    IF RGe(entry_price', stop_loss')
    THEN RSub(entry_price', stop_loss')
    ELSE RSub(stop_loss', entry_price')

\* C4 as stated: at every entry, whenever entry_price differs from stop_loss,
\* quantity x |entry_price - stop_loss| = balance x risk_fraction, and the
\* quantity is 0 only when |entry_price - stop_loss| is not positive.
C4_AbsoluteDistance ==
    [][ opened' = opened + 1 =>
          /\ (entry_price' # stop_loss') =>
                 RMul(trade_size', AbsDistanceAfter) = RMul(BalanceAtEntryStep, risk)
          /\ (trade_size' = R(0)) => ~RGt(AbsDistanceAfter, R(0)) ]_vars

\* C4 amended: the distance is directional (entry - stop for a long,
\* stop - entry for a short).  At every entry, if that distance is positive
\* then quantity x distance = balance at entry x risk_fraction, and the
\* quantity is 0 exactly when the distance is not positive.
C4_Sizing ==
    [][ opened' = opened + 1 =>
          /\ RGt(StopDistanceAfter, R(0)) =>
                 RMul(trade_size', StopDistanceAfter) = RMul(BalanceAtEntryStep, risk)
          /\ (trade_size' = R(0)) <=> ~RGt(StopDistanceAfter, R(0)) ]_vars

\* a short position of positive size, entered after an earlier trade closed
C4_Witness ==
    /\ Running
    /\ position = "short"
    /\ entry_date = LastStep
    /\ RGt(trade_size, R(0))
    /\ Len(trades) >= 1
    /\ balance # cfg.initial_balance

----------------------------------------------------------------------------
\* the balance at the moment of entry of the n-th trade, before its entry
\* costs: what the previous settlement left, or the initial balance
BalanceBeforeEntry(n) ==
    IF n = 1 THEN cfg.initial_balance ELSE trades[n - 1].balance_after

GrossLoss(t) ==
    IF t.position = "long"
    THEN RMul(RSub(t.entry_price, t.exit_price), t.trade_size)
    ELSE RMul(RSub(t.exit_price, t.entry_price), t.trade_size)

ExitCostOf(t) ==
    RAdd(RMul(RMul(t.exit_price, t.trade_size), cfg.commission),
         RMul(RMul(t.exit_price, t.trade_size), cfg.slippage))

\* C5: a stop-out loses the risk budget.  For every trade of positive
\* quantity closed with exit_type 'stop_loss', the gross loss equals
\* risk_fraction x balance at the moment of entry (before entry costs), and
\* the recorded profit is minus that amount minus exit commission and slippage.
C5_StopOutLosesRisk ==
    \A n \in 1..Len(trades) :
        LET t == trades[n]
            budget == RMul(risk, BalanceBeforeEntry(n))
        IN  (t.exit_type = "stop_loss" /\ RGt(t.trade_size, R(0))) =>
                /\ GrossLoss(t) = budget
                /\ t.profit = RSub(RNeg(budget), ExitCostOf(t))

\* a short trade of positive quantity stopped out, with exit costs charged
C5_Witness ==
    \E n \in 1..Len(trades) :
        /\ trades[n].exit_type = "stop_loss"
        /\ trades[n].position = "short"
        /\ RGt(trades[n].trade_size, R(0))
        /\ RGt(ExitCostOf(trades[n]), R(0))

----------------------------------------------------------------------------
EntryCostOf(t) ==
    RAdd(RMul(RMul(t.entry_price, t.trade_size), cfg.commission),
         RMul(RMul(t.entry_price, t.trade_size), cfg.slippage))

\* sum over the trades n..Len(trades) of: profit if the exit date is at most
\* xmax, minus entry costs if the entry date is at most emax
RECURSIVE LedgerSum(_, _, _)
LedgerSum(n, xmax, emax) ==
    IF n > Len(trades)
    THEN R(0)
    ELSE LET t == trades[n]
             gain == IF t.exit_date <= xmax THEN t.profit ELSE R(0)
             cost == IF t.entry_date <= emax THEN EntryCostOf(t) ELSE R(0)
         IN  RAdd(RSub(gain, cost), LedgerSum(n + 1, xmax, emax))

\* initial balance + profits realised up to row xmax - entry costs up to emax
LedgerBalance(xmax, emax) == RAdd(cfg.initial_balance, LedgerSum(1, xmax, emax))

ForcedClose ==
    Len(trades) >= 1 /\ trades[Len(trades)].exit_type = "end_of_data"

\* C6 as stated: in a finished run the equity sample of every bar t equals the
\* initial balance plus the profits of the trades exited at or before t minus
\* the entry costs charged at or before t.
C6_AtOrBefore ==
    Finished =>
        \A k \in 0..(Len(data) - 1) :
            equity_curve[k + 1].equity = LedgerBalance(k, k)

\* C6 amended: in a finished run the equity sample of bar t equals the initial
\* balance plus the profits of the trades exited strictly before t minus the
\* entry costs charged strictly before t; only the last sample after a forced
\* end-of-data close counts every trade and every entry cost.
C6_LedgerEquity ==
    Finished =>
        \A k \in 0..(Len(data) - 1) :
            equity_curve[k + 1].equity =
                IF k = Len(data) - 1 /\ ForcedClose
                THEN LedgerBalance(k, k)
                ELSE LedgerBalance(k - 1, k - 1)

\* a finished run with costs in which a trade closed at the last bar by its
\* stop or target after an earlier bar took an entry
C6_Witness ==
    /\ Finished
    /\ RGt(cfg.commission, R(0))
    /\ Len(trades) >= 1
    /\ ~ForcedClose
    /\ trades[Len(trades)].exit_date = Len(data) - 1
    /\ RGt(trades[Len(trades)].trade_size, R(0))

----------------------------------------------------------------------------
FinishStep == pc = "loop" /\ pc' = "done"

\* C7: end-of-data close.  If a position is open after the last bar, the code
\* after the loop appends exactly one more trade, of exit_type 'end_of_data',
\* exit price the last bar's close and exit date the last bar's timestamp,
\* and adds its net profit to the balance; if no position is open, the
\* ledger is left as it is and holds no 'end_of_data' trade.
C7_EndOfDataClose ==
    [][ FinishStep =>
          /\ \A n \in 1..Len(trades) : trades[n].exit_type # "end_of_data"
          /\ IF position # "None"
             THEN /\ Len(trades') = Len(trades) + 1
                  /\ SubSeq(trades', 1, Len(trades)) = trades
                  /\ LET t == trades'[Len(trades')]
                     IN  /\ t.exit_type = "end_of_data"
                         /\ t.exit_price = Candle(data, Len(data) - 1).close
                         /\ t.exit_date = Date(Len(data) - 1)
                         /\ t.entry_date = entry_date
                         /\ balance' = RAdd(balance, t.profit)
             ELSE /\ trades' = trades
                  /\ balance' = balance ]_vars

\* a finished run whose second trade is a forced close with a changed balance
C7_Witness ==
    /\ Finished
    /\ Len(trades) = 2
    /\ ForcedClose
    /\ trades[2].profit # R(0)
    /\ Candle(data, Len(data) - 1).close # Candle(data, Len(data) - 1).open

----------------------------------------------------------------------------
\* C8: final equity sample correction.  After a forced end-of-data close the
\* last equity sample equals the balance after that settlement (the
\* balance_after of the end_of_data trade), and no other sample, nor any
\* sample's date, nor the number of samples, is changed by it.
C8_FinalSampleCorrected ==
    [][ (FinishStep /\ position # "None") =>
          /\ Len(equity_curve') = Len(equity_curve)
          /\ equity_curve'[Len(equity_curve')].equity = trades'[Len(trades')].balance_after
          /\ equity_curve'[Len(equity_curve')].equity = balance'
          /\ equity_curve'[Len(equity_curve')].date = equity_curve[Len(equity_curve)].date
          /\ \A k \in 1..(Len(equity_curve) - 1) : equity_curve'[k] = equity_curve[k] ]_vars

\* a forced close whose settlement moved the balance, so that the corrected
\* sample differs from the sample before it
C8_Witness ==
    /\ Finished
    /\ ForcedClose
    /\ trades[Len(trades)].profit # R(0)
    /\ Len(equity_curve) >= 3
    /\ equity_curve[Len(equity_curve)].equity = balance
    /\ equity_curve[Len(equity_curve)].equity # equity_curve[Len(equity_curve) - 1].equity

----------------------------------------------------------------------------
\* C9: equity series shape.  While the loop runs there is one sample per row
\* processed; for an input of n >= 1 rows the finished run has exactly n
\* samples, the k-th carrying the k-th row's timestamp, and the first one
\* equals initial_balance.
C9_EquityShape ==
    /\ Running => Len(equity_curve) = i
    /\ (Running \/ Finished) =>
          /\ \A k \in 1..Len(equity_curve) : equity_curve[k].date = Date(k - 1)
          /\ equity_curve[1].equity = cfg.initial_balance
    /\ Finished => (Len(data) >= 1 /\ Len(equity_curve) = Len(data))

\* a finished run over three rows in which one bar closed a trade and the
\* others closed none
C9_Witness ==
    /\ Finished
    /\ Len(data) = 3
    /\ Len(trades) = 1
    /\ trades[1].exit_type = "take_profit"
    /\ Len(equity_curve) = 3

----------------------------------------------------------------------------
\* C10: one trade per closed position, in order.  When the run finishes the
\* ledger holds exactly one trade per position opened; the trades are in
\* non-decreasing order of exit time, each trade's entry is not earlier than
\* the previous trade's exit and later than the previous trade's entry, and
\* no trade exits before it enters.
C10_OneTradePerPosition ==
    Finished =>
        /\ Len(trades) = opened
        /\ \A n \in 1..Len(trades) : trades[n].entry_date <= trades[n].exit_date
        /\ \A n \in 2..Len(trades) :
               /\ trades[n - 1].exit_date <= trades[n].exit_date
               /\ trades[n - 1].exit_date <= trades[n].entry_date
               /\ trades[n - 1].entry_date < trades[n].entry_date

\* a finished run with two positions opened and two trades recorded
C10_Witness ==
    /\ Finished
    /\ opened = 2
    /\ Len(trades) = 2
    /\ trades[1].exit_type = "stop_loss"

----------------------------------------------------------------------------
\* one iteration of the loop, at row i
BarStepTaken == pc = "loop" /\ pc' = "loop" /\ i' = i + 1

ExitedInStep == Len(trades') > Len(trades)
EnteredInStep == opened' > opened

\* C11: same-bar exit then re-entry.  In every bar step at most one trade is
\* recorded and at most one position is opened.  If the step closes the open
\* position (by stop-loss or take-profit) and row i-1 carries a long or short
\* signal, a new position is opened in the same step, dated row i and priced
\* from row i's open.  When both happen the exit comes first: the trade is
\* that of the position held before the step, and the new position is sized
\* and charged on the balance the settlement left.
C11_ExitThenReentry ==
    [][ BarStepTaken =>
          LET prev == Candle(data, i - 1)
              cur == Candle(data, i)
              t == trades'[Len(trades')]
          IN  /\ Len(trades') <= Len(trades) + 1
              /\ opened' <= opened + 1
              /\ ExitedInStep =>
                     /\ position # "None"
                     /\ t.entry_date = entry_date
                     /\ t.exit_date = Date(i)
                     /\ t.exit_type \in {"stop_loss", "take_profit"}
              /\ (ExitedInStep /\ (prev.long_signal \/ prev.short_signal)) =>
                     /\ EnteredInStep
                     /\ position' \in {"long", "short"}
                     /\ entry_date' = Date(i)
                     /\ entry_price' = RMul(cur.open,
                                            IF position' = "long"
                                            THEN RAdd(R(1), cfg.spread)
                                            ELSE RSub(R(1), cfg.spread))
              /\ (ExitedInStep /\ EnteredInStep) =>
                     /\ RGt(StopDistanceAfter, R(0)) =>
                            RMul(trade_size', StopDistanceAfter) = RMul(t.balance_after, risk)
                     /\ balance' =
                            RSub(t.balance_after,
                                 RAdd(RMul(RMul(entry_price', trade_size'), cfg.commission),
                                      RMul(RMul(entry_price', trade_size'), cfg.slippage))) ]_vars

\* a step that stopped out a long and opened a short of positive size
C11_Witness ==
    /\ Running
    /\ Len(trades) >= 1
    /\ trades[Len(trades)].exit_date = LastStep
    /\ trades[Len(trades)].position = "long"
    /\ trades[Len(trades)].exit_type = "stop_loss"
    /\ position = "short"
    /\ entry_date = LastStep
    /\ RGt(trade_size, R(0))

----------------------------------------------------------------------------
\* C12: signal exclusivity.  If row i-1 has both long_signal and short_signal
\* set, the step at row i takes it as no signal: with the slot free at the
\* moment of entry no position is opened, the slot stays empty and the balance
\* is what the exit of the step, if any, left (no entry cost is charged).
C12_BothSignalsIgnored ==
    [][ (BarStepTaken /\ Candle(data, i - 1).long_signal
                      /\ Candle(data, i - 1).short_signal
                      /\ (position = "None" \/ ExitedInStep)) =>
          /\ ~EnteredInStep
          /\ position' = "None"
          /\ balance' = BalanceAtEntryStep ]_vars

----------------------------------------------------------------------------
ZeroSizeOpen == position # "None" /\ trade_size = R(0)

\* C13: degenerate sizing is not fatal.  An entry whose distance to the stop
\* is zero or negative opens a position of quantity 0 and leaves the balance
\* as it was; while that position is open and not exited no entry is taken
\* and the position is unchanged; it is still open after the last row only
\* to be closed as end_of_data; and its exit appends a trade of quantity 0,
\* profit 0 and balance_after equal to the balance before, the run going on
\* without an error (profit_pct, 0/0 in numpy floats, is nan).
C13_DegenerateSizing ==
    [][ /\ (BarStepTaken /\ EnteredInStep /\ ~RGt(StopDistanceAfter, R(0))) =>
               /\ position' # "None"
               /\ trade_size' = R(0)
               /\ balance' = BalanceAtEntryStep
        /\ (BarStepTaken /\ ZeroSizeOpen /\ ~ExitedInStep) =>
               /\ ~EnteredInStep
               /\ <<position, entry_price, entry_date, stop_loss, take_profit, trade_size>>'
                      = <<position, entry_price, entry_date, stop_loss, take_profit, trade_size>>
               /\ balance' = balance
        /\ (FinishStep /\ ZeroSizeOpen) => ExitedInStep
        /\ ((BarStepTaken \/ FinishStep) /\ ZeroSizeOpen /\ ExitedInStep) =>
               LET t == trades'[Len(trades) + 1]
               IN  /\ t.entry_date = entry_date
                   /\ t.trade_size = R(0)
                   /\ t.profit = R(0)
                   /\ t.balance_after = balance
                   /\ t.profit_pct = NaN
                   /\ pc' # "error" ]_vars

\* a long whose stop equals its entry price stayed open over a bar on which
\* a signal was pending and was closed at the end of the data
C13_Witness ==
    /\ Finished
    /\ Len(trades) = 1
    /\ trades[1].trade_size = R(0)
    /\ trades[1].entry_price = trades[1].stop_loss
    /\ trades[1].entry_date = 1
    /\ trades[1].exit_date = 2
    /\ trades[1].exit_type = "end_of_data"
    /\ Candle(data, 1).short_signal

----------------------------------------------------------------------------
AllNone == \A n \in 1..Len(data) : Direction(data[n]) = "None"

\* C14: zero-trade case.  On a frame whose rows all carry no signal the run
\* never fills the position slot, the ledger stays empty and every equity
\* sample equals initial_balance at every step; the run returns metrics with
\* total_trades, win_rate, profit_factor, avg_win, avg_loss, max_drawdown,
\* max_drawdown_pct and return all 0 and final_balance = initial_balance.
C14_ZeroTrades ==
    (AllNone /\ pc \in {"loop", "done"}) =>
        /\ trades = <<>>
        /\ opened = 0
        /\ balance = cfg.initial_balance
        /\ \A n \in 1..Len(equity_curve) :
               equity_curve[n].equity = cfg.initial_balance
        /\ Finished =>
               /\ Len(equity_curve) = Len(data)
               /\ metrics.total_trades = 0
               /\ metrics.win_rate = R(0)
               /\ metrics.profit_factor = R(0)
               /\ metrics.avg_win = R(0)
               /\ metrics.avg_loss = R(0)
               /\ metrics.max_drawdown = R(0)
               /\ metrics.max_drawdown_pct = R(0)
               /\ metrics.return = R(0)
               /\ metrics.final_balance = cfg.initial_balance

\* a finished run over three signal-free rows whose prices moved
C14_Witness ==
    /\ Finished
    /\ AllNone
    /\ Len(data) = MaxBars
    /\ \E n \in 1..Len(data) : data[n].high # data[n].low
    /\ metrics.total_trades = 0

----------------------------------------------------------------------------
Returned == pc = "returned"

\* the points of the walk: initial_balance, then each balance_after in order
Points == <<cfg.initial_balance>> \o [n \in 1..Len(trades) |-> trades[n].balance_after]

\* the highest of the first n points, and the drop of point n below it
PeakAt(n) ==
    CHOOSE v \in {Points[k] : k \in 1..n} : \A k \in 1..n : RGe(v, Points[k])

DrawdownAt(n) == RSub(PeakAt(n), Points[n])

DrawdownPctAt(n) == RDiv(DrawdownAt(n), PeakAt(n))

WalkAt(n) == Walk(EquityValues(trades, cfg.initial_balance), cfg.initial_balance, n)

\* C15: drawdown walk over initial_balance and each balance_after in order.
\* The running peak is the highest point so far and never decreases, the
\* drawdown peak - current is >= 0 at every point, and the reported
\* max_drawdown is >= the drawdown at every point and equals the drawdown at
\* some point, or 0.
C15_DrawdownWalk ==
    (Returned /\ trades # <<>>) =>
        /\ \A n \in 1..Len(Points) :
               /\ WalkAt(n).max_equity = PeakAt(n)
               /\ RGe(WalkAt(n).max_equity, WalkAt(n - 1).max_equity)
               /\ WalkAt(n).drawdown = DrawdownAt(n)
               /\ RGe(WalkAt(n).drawdown, R(0))
               /\ RGe(metrics.max_drawdown, WalkAt(n).drawdown)
        /\ \/ metrics.max_drawdown = R(0)
           \/ \E n \in 1..Len(Points) : metrics.max_drawdown = DrawdownAt(n)

\* a ledger of three trades whose peak rose above initial_balance and whose
\* largest drawdown was reached before the last point
C15_Witness ==
    /\ Returned
    /\ Len(trades) = MaxTrades
    /\ RGt(PeakAt(Len(Points)), cfg.initial_balance)
    /\ RGt(DrawdownAt(Len(Points)), R(0))
    /\ RGt(metrics.max_drawdown, DrawdownAt(Len(Points)))

\* C16: the reported max_drawdown_pct is the maximum over all points of the
\* walk of (peak at that point - value at that point) / (peak at that
\* point), so it is >= the fractional drawdown at every point.
C16_MaxDrawdownPct ==
    (Returned /\ trades # <<>>) =>
        /\ \A n \in 1..Len(Points) : RGe(metrics.max_drawdown_pct, DrawdownPctAt(n))
        /\ \/ metrics.max_drawdown_pct = R(0)
           \/ \E n \in 1..Len(Points) : metrics.max_drawdown_pct = DrawdownPctAt(n)

----------------------------------------------------------------------------
WinIndexes == {n \in 1..Len(trades) : RGt(trades[n].profit, R(0))}
LossIndexes == {n \in 1..Len(trades) : RLe(trades[n].profit, R(0))}

RECURSIVE ProfitOver(_)
ProfitOver(S) ==
    IF S = {} THEN R(0)
    ELSE LET n == CHOOSE m \in S : TRUE
         IN  RAdd(trades[n].profit, ProfitOver(S \ {n}))

MeanProfitOver(S) ==
    IF S = {} THEN R(0) ELSE RDiv(ProfitOver(S), R(Cardinality(S)))

\* C17: profit_factor of a non-empty ledger equals sum(positive profits) /
\* |sum(non-positive profits)| when that loss sum is non-zero, and is
\* infinite exactly when the losses sum to zero and there is at least one
\* winning trade.
C17_ProfitFactor ==
    (Returned /\ trades # <<>>) =>
        LET gross_profit == ProfitOver(WinIndexes)
            gross_loss == RAbs(ProfitOver(LossIndexes))
        IN  /\ gross_loss # R(0) =>
                   metrics.profit_factor = RDiv(gross_profit, gross_loss)
            /\ metrics.profit_factor = Inf <=>
                   (gross_loss = R(0) /\ WinIndexes # {})

PartitionCounts ==
    /\ metrics.winning_trades = Cardinality(WinIndexes)
    /\ metrics.losing_trades = Cardinality(LossIndexes)
    /\ WinIndexes \cap LossIndexes = {}
    /\ metrics.winning_trades + metrics.losing_trades = metrics.total_trades
    /\ metrics.total_trades = Len(trades)
    /\ metrics.win_rate = Rat(Cardinality(WinIndexes), Len(trades))
    /\ metrics.avg_win = MeanProfitOver(WinIndexes)

\* C18 as stated: avg_loss is the mean profit over the losing subset
C18_SignedMeans ==
    (Returned /\ trades # <<>>) =>
        /\ PartitionCounts
        /\ metrics.avg_loss = MeanProfitOver(LossIndexes)

\* C18: win/loss partition.  A trade is a win iff its profit is > 0 and a
\* loss iff its profit is <= 0, so winning_trades + losing_trades =
\* total_trades = ledger length, win_rate = winning_trades / total_trades,
\* avg_win is the mean profit of the wins and avg_loss is the absolute value
\* of the mean profit of the losses (never negative), each 0 when its subset
\* is empty.
C18_Partition ==
    (Returned /\ trades # <<>>) =>
        /\ PartitionCounts
        /\ metrics.avg_loss = RAbs(MeanProfitOver(LossIndexes))
        /\ RGe(metrics.avg_loss, R(0))

\* a ledger with a win, a losing trade and a trade of profit exactly 0
C18_Witness ==
    /\ Returned
    /\ Len(trades) = MaxTrades
    /\ metrics.winning_trades = 1
    /\ metrics.losing_trades = 2
    /\ \E n \in LossIndexes : trades[n].profit = R(0)
    /\ RGt(metrics.avg_loss, R(0))

----------------------------------------------------------------------------
\* C19: risk percentage through the public class.  A strategy built as
\* SMCStrategy(risk_per_trade = r) and run with backtest() sizes every
\* position entered at a positive distance to its stop with a risk amount of
\* r percent of the balance at entry, as run_backtest(data, risk_per_trade =
\* r) does.
C19_RiskPercentage ==
    [][ (BarStepTaken /\ EnteredInStep /\ strategy_arg # NoneVal
                      /\ RGt(StopDistanceAfter, R(0))) =>
            RMul(trade_size', StopDistanceAfter)
                = RMul(BalanceAtEntryStep, RDiv(strategy_arg, R(100))) ]_vars

----------------------------------------------------------------------------
\* C20: input-shape errors.  A frame of fewer than 2 rows is surfaced as an
\* error before the first simulation step: the call never enters the loop
\* and returns no trade ledger, no equity series and no metrics.
C20_InputShapeErrors ==
    Len(data) < 2 =>
        /\ pc \in {"start", "error"}
        /\ trades = <<>>
        /\ equity_curve = <<>>
        /\ data_equity = <<>>
        /\ metrics = <<>>

----------------------------------------------------------------------------
\* the stop and the target condition of a position of direction dir with
\* levels stop and target, on bar cur
StopTriggered(dir, cur, stop) ==
    \/ dir = "long" /\ RLe(cur.low, stop)
    \/ dir = "short" /\ RGe(cur.high, stop)

TargetTriggered(dir, cur, target) ==
    \/ dir = "long" /\ RGe(cur.high, target)
    \/ dir = "short" /\ RLe(cur.low, target)

\* C21: exit triggers.  A long held at bar i is closed at bar i iff low <=
\* stop-loss or high >= take-profit, a short iff high >= stop-loss or low <=
\* take-profit; the exit price is a triggered level itself and the exit is
\* dated bar i; when neither triggers, the position, the balance and the
\* ledger are unchanged.
C21_ExitTriggers ==
    [][ (BarStepTaken /\ position # "None") =>
          LET cur == Candle(data, i)
              stop == StopTriggered(position, cur, stop_loss)
              target == TargetTriggered(position, cur, take_profit)
          IN  /\ ExitedInStep <=> (stop \/ target)
              /\ ExitedInStep =>
                     LET t == trades'[Len(trades) + 1]
                     IN  /\ Len(trades') = Len(trades) + 1
                         /\ t.exit_date = Date(i)
                         /\ t.position = position
                         /\ \/ t.exit_type = "stop_loss" /\ stop
                                  /\ t.exit_price = stop_loss
                            \/ t.exit_type = "take_profit" /\ target
                                  /\ t.exit_price = take_profit
              /\ ~ExitedInStep =>
                     /\ trades' = trades
                     /\ balance' = balance
                     /\ <<position, entry_price, entry_date, stop_loss, take_profit, trade_size>>'
                          = <<position, entry_price, entry_date, stop_loss, take_profit, trade_size>> ]_vars

\* a short closed by a bar whose low just touches its target, at a price that
\* is no price of the bar's open or close
C21_Witness ==
    /\ Running
    /\ Len(trades) = 1
    /\ trades[1].position = "short"
    /\ trades[1].exit_type = "take_profit"
    /\ trades[1].exit_price = trades[1].take_profit
    /\ Candle(data, trades[1].exit_date).low = trades[1].take_profit
    /\ Candle(data, trades[1].exit_date).open # trades[1].exit_price

----------------------------------------------------------------------------
\* C22 as stated: the exit test at bar i uses the stop/target of bar i-1
C22_PreviousBarLevels ==
    [][ (BarStepTaken /\ position # "None") =>
          LET cur == Candle(data, i)
              prev == Candle(data, i - 1)
          IN  ExitedInStep <=>
                  \/ StopTriggered(position, cur, prev.stop_loss)
                  \/ TargetTriggered(position, cur, prev.take_profit) ]_vars

\* C22: levels used for the exit test.  When a position is open at bar i the
\* stop-loss and take-profit conditions are evaluated against bar i's
\* high/low with the levels fixed at entry, which are the stop/target of the
\* bar before the entry bar (the bar that carried the signal), whatever
\* levels bar i-1 carries.
C22_EntryLevels ==
    [][ (BarStepTaken /\ position # "None") =>
          LET cur == Candle(data, i)
              sig == Candle(data, entry_date - 1)
          IN  /\ stop_loss = sig.stop_loss
              /\ take_profit = sig.take_profit
              /\ ExitedInStep <=>
                     \/ StopTriggered(position, cur, sig.stop_loss)
                     \/ TargetTriggered(position, cur, sig.take_profit) ]_vars

\* a long entered at bar 1 on bar 0's levels and closed at bar 2, while
\* bar 1 carried a signal with other levels
C22_Witness ==
    /\ Running
    /\ Len(trades) = 1
    /\ trades[1].entry_date = 1
    /\ trades[1].exit_date = 2
    /\ Direction(Candle(data, 1)) # "None"
    /\ Candle(data, 1).stop_loss # trades[1].stop_loss
    /\ trades[1].stop_loss = Candle(data, 0).stop_loss

----------------------------------------------------------------------------
\* C23: exit settlement, for stop, target and end-of-data exits alike.  The
\* trade's profit is (exit - entry) x quantity for a long and (entry - exit)
\* x quantity for a short, less exit commission and exit slippage, each
\* exit_price x quantity x rate; balance_after is the balance immediately
\* before the exit plus that profit, and the balance moves by exactly that
\* profit (in a step that takes no new entry the new balance is
\* balance_after).
C23_ExitSettlement ==
    [][ ((BarStepTaken \/ FinishStep) /\ ExitedInStep) =>
          LET t == trades'[Len(trades) + 1]
              gross == IF position = "long"
                       THEN RMul(RSub(t.exit_price, entry_price), trade_size)
                       ELSE RMul(RSub(entry_price, t.exit_price), trade_size)
              commission_cost == RMul(RMul(t.exit_price, trade_size), cfg.commission)
              slippage_cost == RMul(RMul(t.exit_price, trade_size), cfg.slippage)
          IN  /\ position \in {"long", "short"}
              /\ t.exit_type \in {"stop_loss", "take_profit", "end_of_data"}
              /\ t.exit_type = "end_of_data" <=> FinishStep
              /\ t.profit = RSub(RSub(gross, commission_cost), slippage_cost)
              /\ t.balance_after = RAdd(balance, t.profit)
              /\ ~EnteredInStep => balance' = RAdd(balance, t.profit) ]_vars

\* a finished run with a short settled at a level inside the loop and a
\* second position settled at the end of the data, both with exit costs
C23_Witness ==
    /\ Finished
    /\ Len(trades) = 2
    /\ trades[1].position = "short"
    /\ trades[1].exit_type \in {"stop_loss", "take_profit"}
    /\ trades[2].exit_type = "end_of_data"
    /\ RGt(trades[1].trade_size, R(0))
    /\ RGt(trades[2].trade_size, R(0))
    /\ trades[2].profit # R(0)

----------------------------------------------------------------------------
\* entry commission and slippage of the position now open
OpenEntryCost ==
    RAdd(RMul(RMul(entry_price, trade_size), cfg.commission),
         RMul(RMul(entry_price, trade_size), cfg.slippage))

RECURSIVE SumOfProfits(_)
SumOfProfits(n) ==
    IF n = 0 THEN R(0) ELSE RAdd(SumOfProfits(n - 1), trades[n].profit)

RECURSIVE SumOfEntryCosts(_)
SumOfEntryCosts(n) ==
    IF n = 0 THEN R(0) ELSE RAdd(SumOfEntryCosts(n - 1), EntryCostOf(trades[n]))

\* C24: entry-cost asymmetry.  Entry commission and slippage, each
\* entry_price x quantity x rate, leave the balance in the entry step and
\* are not part of a trade's profit: for every closed trade balance_after =
\* balance just before its entry - entry costs + profit; while a position is
\* open the balance already lacks its entry costs; and at the end of a run
\* the final balance = initial_balance + sum of all profits - sum of all
\* entry costs.
C24_EntryCostAsymmetry ==
    /\ pc \in {"loop", "done"} =>
           \A n \in 1..Len(trades) :
               trades[n].balance_after =
                   RAdd(RSub(BalanceBeforeEntry(n), EntryCostOf(trades[n])),
                        trades[n].profit)
    /\ (Running /\ position # "None") =>
           balance = RSub(BalanceBeforeEntry(Len(trades) + 1), OpenEntryCost)
    /\ Finished =>
           balance = RSub(RAdd(cfg.initial_balance, SumOfProfits(Len(trades))),
                          SumOfEntryCosts(Len(trades)))

\* a finished run of two trades that both paid entry costs, so that the
\* final balance is not initial_balance plus the profits
C24_Witness ==
    /\ Finished
    /\ Len(trades) = 2
    /\ RGt(EntryCostOf(trades[1]), R(0))
    /\ RGt(EntryCostOf(trades[2]), R(0))
    /\ balance # RAdd(cfg.initial_balance, SumOfProfits(Len(trades)))

----------------------------------------------------------------------------
\* what the ledger and the open position say the balance is: initial_balance
\* plus the profits of the closed trades minus the entry costs of the closed
\* trades and of the position now open
RealizedBalance ==
    LET closed == RSub(RAdd(cfg.initial_balance, SumOfProfits(Len(trades))),
                       SumOfEntryCosts(Len(trades)))
    IN  IF position # "None" THEN RSub(closed, OpenEntryCost) ELSE closed

\* C25: the equity sample is taken before the bar's exit and entry.  The
\* step of bar i (i >= 1) appends one sample dated bar i whose value is the
\* balance at the end of step i-1, which is initial_balance plus the profits
\* of the trades exited before bar i minus the entry costs charged before
\* bar i, so no unrealized profit of an open position is in it; earlier
\* samples are not touched, and after the loop only the last sample may be
\* rewritten, and only by an end-of-data close.
C25_SampleBeforeExit ==
    [][ /\ BarStepTaken =>
              /\ Len(equity_curve') = i + 1
              /\ SubSeq(equity_curve', 1, i) = equity_curve
              /\ equity_curve'[i + 1].date = Date(i)
              /\ equity_curve'[i + 1].equity = balance
              /\ equity_curve'[i + 1].equity = RealizedBalance
              /\ data_equity'[i + 1] = balance
        /\ FinishStep =>
              /\ Len(equity_curve') = Len(equity_curve)
              /\ \A k \in 1..Len(equity_curve) :
                     (k < Len(equity_curve) \/ position = "None") =>
                         equity_curve'[k] = equity_curve[k] ]_vars

\* a position of positive quantity entered at bar 1 is still open after bar
\* 2, whose close is away from the entry price, and bar 2's sample is the
\* balance left by the entry
C25_Witness ==
    /\ Running
    /\ LastStep = 2
    /\ position # "None"
    /\ entry_date = 1
    /\ RGt(trade_size, R(0))
    /\ Candle(data, 2).close # entry_price
    /\ equity_curve[3].equity = balance
    /\ equity_curve[3].equity # equity_curve[2].equity

----------------------------------------------------------------------------
Slot == <<position, entry_price, entry_date, stop_loss, take_profit, trade_size>>

\* C28: an open position is frozen.  A bar step that does not close the open
\* position leaves its direction, entry price, entry date, stop-loss,
\* take-profit and quantity, and the balance and the ledger, as they were,
\* whatever signal and levels the rows carry; the step that closes it, in
\* the loop or at the end of the data, records exactly those values.
C28_FrozenPosition ==
    [][ /\ (BarStepTaken /\ position # "None" /\ ~ExitedInStep) =>
              /\ Slot' = Slot
              /\ balance' = balance
              /\ trades' = trades
              /\ opened' = opened
        /\ ((BarStepTaken \/ FinishStep) /\ ExitedInStep) =>
              LET t == trades'[Len(trades) + 1]
              IN  /\ SubSeq(trades', 1, Len(trades)) = trades
                  /\ <<t.position, t.entry_price, t.entry_date,
                       t.stop_loss, t.take_profit, t.trade_size>> = Slot ]_vars

\* a position of positive quantity entered at bar 1 was kept through bar 2,
\* whose previous row carried a signal with other levels, and was closed at
\* the end of the data with the levels of its entry
C28_Witness ==
    /\ Finished
    /\ Len(data) = 3
    /\ Len(trades) = 1
    /\ trades[1].entry_date = 1
    /\ trades[1].exit_type = "end_of_data"
    /\ RGt(trades[1].trade_size, R(0))
    /\ Direction(Candle(data, 1)) \notin {"None", trades[1].position}
    /\ Candle(data, 1).stop_loss # trades[1].stop_loss
    /\ trades[1].stop_loss = Candle(data, 0).stop_loss

----------------------------------------------------------------------------
\* C29: no exit on the entry bar.  Every trade closed by its stop-loss or
\* take-profit has an exit date strictly later than its entry date, even
\* when the entry bar's own low/high touches the level; a trade whose entry
\* and exit dates are equal is an end_of_data trade entered on the last bar.
C29_NoExitOnEntryBar ==
    pc \in {"loop", "done"} =>
        /\ \A n \in 1..Len(trades) :
               LET t == trades[n]
               IN  /\ t.exit_date >= t.entry_date
                   /\ t.exit_type \in {"stop_loss", "take_profit"} =>
                          t.exit_date > t.entry_date
                   /\ t.exit_date = t.entry_date =>
                          /\ t.exit_type = "end_of_data"
                          /\ t.entry_date = Len(data) - 1
        /\ (Running /\ position # "None") => entry_date <= LastStep

\* a long entered at bar 1, whose low is already at or below the stop, was
\* not closed at bar 1 but at bar 2 by the stop
C29_Witness ==
    /\ Running
    /\ Len(trades) = 1
    /\ trades[1].position = "long"
    /\ trades[1].entry_date = 1
    /\ RLe(Candle(data, 1).low, trades[1].stop_loss)
    /\ trades[1].exit_type = "stop_loss"
    /\ trades[1].exit_date = 2

----------------------------------------------------------------------------
GenRunning == pc \in {"gen_loop", "gen_done"}

Marked(k) == Candle(data, k).long_signal \/ Candle(data, k).short_signal

\* the rows of calendar day d that carry a signal
MarkedOn(d) == {k \in 0..(Len(data) - 1) : Candle(data, k).day = d /\ Marked(k)}

\* C26: daily cap.  On a frame in chronological order, for every calendar
\* day the number of rows of that day marked long_signal or short_signal is
\* at most max_trades_per_day; no row with index below 50 is marked; and no
\* row is marked both long_signal and short_signal.
C26_DailyCap ==
    GenRunning =>
        /\ \A d \in {Candle(data, k).day : k \in 0..(Len(data) - 1)} :
               Cardinality(MarkedOn(d)) <= cfg.max_trades_per_day
        /\ \A k \in 0..(Len(data) - 1) :
               /\ k < WarmUp => ~Marked(k)
               /\ ~(Candle(data, k).long_signal /\ Candle(data, k).short_signal)

\* with a cap of 1, row 50 was marked and row 51, a rising bar of the same
\* day that also released the active trade's stop, was left unmarked
C26_Witness ==
    /\ pc = "gen_done"
    /\ cfg.max_trades_per_day = 1
    /\ Len(data) = WarmUp + MaxSignalBars
    /\ Marked(50)
    /\ Candle(data, 51).day = Candle(data, 50).day
    /\ RLe(Candle(data, 51).low, Candle(data, 50).stop_loss)
    /\ LongSignal(Candle(data, 51), cfg.patterns, 51)
    /\ ~Marked(51)

----------------------------------------------------------------------------
GenStepTaken == pc = "gen_loop" /\ pc' = "gen_loop"

\* the last row before row k that carries a signal
LastSignal(k) ==
    CHOOSE m \in 0..(k - 1) : Marked(m) /\ \A n \in (m + 1)..(k - 1) : ~Marked(n)

\* the counter as row i sees it, after the reset of a new day
CountSeenAt(cur) == IF cur.day # current_date THEN 0 ELSE trades_today

\* row cur hits the stop or the target of the signal carried by row sig
HitsLevels(cur, sig) ==
    \/ /\ sig.long_signal
       /\ RLe(cur.low, sig.stop_loss) \/ RGe(cur.high, sig.take_profit)
    \/ /\ sig.short_signal
       /\ RGe(cur.high, sig.stop_loss) \/ RLe(cur.low, sig.take_profit)

\* C27: active-trade release.  After a signal at row s with stop-loss S and
\* take-profit T, the active-trade flag is cleared at the first later row,
\* on a day whose cap is not reached, whose price action hits S or T,
\* however many rows after s that is: a step at such a row while the flag is
\* still set ends with the flag cleared or with the row itself marked.
C27_ActiveTradeRelease ==
    [][ (/\ GenStepTaken
         /\ active_trade
         /\ CountSeenAt(Candle(data, i)) < cfg.max_trades_per_day
         /\ HitsLevels(Candle(data, i), Candle(data, LastSignal(i)))) =>
            \/ active_trade' = FALSE
            \/ Candle(data', i).long_signal \/ Candle(data', i).short_signal ]_vars

====
